---- MODULE Spec2Model ----
(***************************************************************************)
(* Model of app.py, the Streamlit "AI News Podcast Generator".            *)
(*                                                                         *)
(* A script (re)run of a browser session executes app.py top to bottom.   *)
(* The model keeps the process-wide state (secrets, the st.cache_resource *)
(* entry of initialize_gcp_clients, the audio file on disk), every         *)
(* session's st.session_state, and the position of a triggered run in the *)
(* four-step pipeline.  The steps are cut at the blocking network calls.  *)
(*                                                                         *)
(* Script texts are sequences of one-character strings, so that "Error"   *)
(* containment, str.replace and str.strip are computed, not assumed.      *)
(* Article texts are sequences of runs <<paragraph, chars taken>>, so     *)
(* that the 4000 and 1500 character slices are computed on real lengths.  *)
(***************************************************************************)
EXTENDS Integers, Sequences, FiniteSets, TLC

\* ------------------------------------------------------------------ bounds
NumSessions == 2
MaxFetched == 2
MaxForScript == 2
MaxParas == 2

\* ------------------------------------------------------- program constants
ArticleLengthCap == 4000
PromptTextCap == 1500

\* ------------------------------------------------------ character strings
Whitespace == {" ", "\n", "\t"}

\* the sentinel looked for by `"Error" in text`
ErrorMarker == <<"E","r","r","o","r">>

\* Error: Gemini model not available.
ErrModelNotAvailable ==
    <<"E","r","r","o","r",":"," ","G","e","m","i","n","i"," ","m","o","d","e","l"," ","n","o","t"," ","a","v","a","i","l","a","b","l","e",".">>
\* I couldn't find enough relevant news for your topics/companies to generate a script after processing.
NoNewsMessage ==
    <<"I"," ","c","o","u","l","d","n","'","t"," ","f","i","n","d"," ","e","n","o","u","g","h"," ","r","e","l","e","v","a","n","t"," ","n","e","w","s"," ","f","o","r"," ","y","o","u","r"," ","t","o","p","i","c","s","/","c","o","m","p","a","n","i","e","s"," ","t","o"," ","g","e","n","e","r","a","t","e"," ","a"," ","s","c","r","i","p","t"," ","a","f","t","e","r"," ","p","r","o","c","e","s","s","i","n","g",".">>
\* Error: Gemini did not return a valid script. Please check the logs and try adjusting the prompt or input articles.
ErrNoValidScript ==
    <<"E","r","r","o","r",":"," ","G","e","m","i","n","i"," ","d","i","d"," ","n","o","t"," ","r","e","t","u","r","n"," ","a"," ","v","a","l","i","d"," ","s","c","r","i","p","t","."," ","P","l","e","a","s","e"," ","c","h","e","c","k"," ","t","h","e"," ","l","o","g","s"," ","a","n","d"," ","t","r","y"," ","a","d","j","u","s","t","i","n","g"," ","t","h","e"," ","p","r","o","m","p","t"," ","o","r"," ","i","n","p","u","t"," ","a","r","t","i","c","l","e","s",".">>
\* Error: An exception occurred while generating the podcast script.
ErrException ==
    <<"E","r","r","o","r",":"," ","A","n"," ","e","x","c","e","p","t","i","o","n"," ","o","c","c","u","r","r","e","d"," ","w","h","i","l","e"," ","g","e","n","e","r","a","t","i","n","g"," ","t","h","e"," ","p","o","d","c","a","s","t"," ","s","c","r","i","p","t",".">>

\* pat occurs in s at position i
MatchAt(s, pat, i) ==
    /\ i + Len(pat) - 1 <= Len(s)
    /\ \A k \in 1..Len(pat) : s[i + k - 1] = pat[k]

\* Python `pat in s`
Contains(s, pat) == \E i \in 1..(Len(s) + 1) : MatchAt(s, pat, i)

\* Python `s.strip()` is empty
IsBlank(s) == \A i \in 1..Len(s) : s[i] \in Whitespace

\* Python `s.replace(pat, "")`: leftmost, non-overlapping, one pass
RECURSIVE RemoveFrom(_, _, _)
RemoveFrom(s, pat, i) ==
    IF i > Len(s) THEN <<>>
    ELSE IF MatchAt(s, pat, i) THEN RemoveFrom(s, pat, i + Len(pat))
    ELSE <<s[i]>> \o RemoveFrom(s, pat, i + 1)

Remove(s, pat) == RemoveFrom(s, pat, 1)

\* script_text.replace("*- ", "").replace("* ", "").replace("- ", "")
CleanupScript(t) ==
    Remove(Remove(Remove(t, <<"*","-"," ">>), <<"*"," ">>), <<"-"," ">>)

\* ---------------------------------------------------------- article texts
\* A page is [kind |-> "fail"] (the request or the parse raised) or a parsed
\* document
\* [kind    |-> "doc",
\*  present |-> the selectors that match an element,
\*  paras   |-> the <p> elements in document order, each with the length
\*              and word count of its stripped text and the selectors whose
\*              first match holds it].
main_content_selectors ==
    <<"article", "main", ".main-content", "#main-content",
      ".story-content", ".article-body", "#content">>

\* ' '.join(texts of the paragraphs idx[1], idx[2], ... of doc)
RECURSIVE JoinParas(_, _)
JoinParas(doc, idx) ==
    IF idx = <<>> THEN <<>>
    ELSE LET i == Head(idx)
             own == IF doc.paras[i].len > 0 THEN << <<i, doc.paras[i].len>> >> ELSE <<>>
         IN  IF Tail(idx) = <<>> THEN own
             ELSE own \o << <<0, 1>> >> \o JoinParas(doc, Tail(idx))

\* text[:cap]
RECURSIVE Slice(_, _)
Slice(text, cap) ==
    IF text = <<>> \/ cap <= 0 THEN <<>>
    ELSE IF Head(text)[2] <= cap
         THEN <<Head(text)>> \o Slice(Tail(text), cap - Head(text)[2])
         ELSE << <<Head(text)[1], cap>> >>

\* indices of the paragraphs of doc inside the first element matching sel
ParasIn(doc, sel) ==
    SelectSeq([i \in 1..Len(doc.paras) |-> i], LAMBDA i : sel \in doc.paras[i].inside)

AllParas(doc) == [i \in 1..Len(doc.paras) |-> i]

\* the `for selector in main_content_selectors` loop: index of the selector
\* the loop breaks on, 0 when soup.select_one finds nothing for any of them
RECURSIVE FirstMatch(_, _)
FirstMatch(doc, k) ==
    IF k > Len(main_content_selectors) THEN 0
    ELSE IF main_content_selectors[k] \in doc.present THEN k
    ELSE FirstMatch(doc, k + 1)

\* faulty variant: the request error escapes the function
get_article_text_uncaught(page) ==
    IF page.kind = "fail" THEN [raised |-> TRUE, ret |-> <<>>]
    ELSE LET k == FirstMatch(page, 1)
             content_text ==
                 IF k = 0 THEN <<>>
                 ELSE JoinParas(page, ParasIn(page, main_content_selectors[k]))
             fallback ==
                 IF content_text = <<>> THEN JoinParas(page, AllParas(page))
                 ELSE content_text
         IN  [raised |-> FALSE, ret |-> Slice(fallback, ArticleLengthCap)]

get_article_text(page) ==
    IF page.kind = "fail" THEN [raised |-> FALSE, ret |-> <<>>]
    ELSE LET k == FirstMatch(page, 1)
             content_text ==
                 IF k = 0 THEN <<>>
                 ELSE JoinParas(page, ParasIn(page, main_content_selectors[k]))
             fallback ==
                 IF content_text = <<>> THEN JoinParas(page, AllParas(page))
                 ELSE content_text
         IN  [raised |-> FALSE, ret |-> Slice(fallback, ArticleLengthCap)]

\* ------------------------------------------------------------ news fetch
\* An article record of the NewsAPI response; one without 'title' makes
\* article['title'] raise KeyError inside the try block.
WellFormed(article) == "title" \in DOMAIN article

\* snippet: (description or content[:200]) if content else ''
ToNewsItem(article) ==
    [title |-> article.title,
     link |-> article.url,
     snippet |-> IF article.content # ""
                 THEN (IF article.description # "" THEN article.description
                       ELSE article.content)
                 ELSE "",
     source_name |-> IF article.source # "" THEN article.source
                     ELSE "Unknown Source"]

\* the `for article in articles` loop: results appended until one raises
RECURSIVE ConvertArticles(_)
ConvertArticles(articles) ==
    IF articles = <<>> \/ ~WellFormed(Head(articles)) THEN <<>>
    ELSE <<ToNewsItem(Head(articles))>> \o ConvertArticles(Tail(articles))

fetch_news_newsapi(api_key, topics, companies, resp) ==
    IF ~api_key THEN [results |-> <<>>, called |-> FALSE]
    ELSE IF topics = <<>> /\ companies = <<>> THEN [results |-> <<>>, called |-> FALSE]
    ELSE IF resp.kind = "error" THEN [results |-> <<>>, called |-> TRUE]
    ELSE [results |-> ConvertArticles(resp.articles), called |-> TRUE]

\* ----------------------------------------------------- script composition
Part(kind, n, v) == [kind |-> kind, n |-> n, v |-> v]

\* the fixed lines of prompt_parts: the role lines 204-206, the topics and
\* companies lines, the structure lines 209-218
PromptHead(topics, companies) ==
    << Part("instructions", 1, <<>>),
       Part("topics", 0,
            IF topics # <<>> THEN topics ELSE <<"General Tech & Business News">>),
       Part("companies", 0,
            IF companies # <<>> THEN companies
            ELSE <<"Not specified, focus on general relevance">>),
       Part("instructions", 2, <<>>) >>

ItemParts(i, item) ==
    << Part("header", i, <<>>),
       Part("title", 0, item.title),
       Part("source", 0, item.source_name) >>
    \o (IF item.snippet # "" THEN <<Part("snippet", 0, item.snippet)>> ELSE <<>>)
    \o (IF "full_text_content" \in DOMAIN item /\ item.full_text_content # <<>>
        THEN <<Part("extracted", 0, Slice(item.full_text_content, PromptTextCap))>>
        ELSE IF item.link # "" THEN <<Part("url", 0, item.link)>>
        ELSE <<>>)

RECURSIVE ItemsParts(_, _)
ItemsParts(items, i) ==
    IF i > Len(items) THEN <<>>
    ELSE ItemParts(i, items[i]) \o ItemsParts(items, i + 1)

BuildPrompt(items, topics, companies) ==
    PromptHead(topics, companies)
    \o ItemsParts(items, 1)
    \o << Part("end_of_items", 0, <<>>), Part("generate_now", 0, <<>>) >>

\* faulty variant: no except clause around the generation call
generate_uncaught(gemini_model, items, topics, companies, resp) ==
    IF ~gemini_model
    THEN [raised |-> FALSE, ret |-> ErrModelNotAvailable, called |-> FALSE, prompt |-> <<>>]
    ELSE IF items = <<>>
    THEN [raised |-> FALSE, ret |-> NoNewsMessage, called |-> FALSE, prompt |-> <<>>]
    ELSE LET full_prompt == BuildPrompt(items, topics, companies)
             ret == CASE resp.kind = "text" -> CleanupScript(resp.text)
                      [] resp.kind \in {"no_candidates", "no_parts"} -> ErrNoValidScript
                      [] OTHER -> <<>>
         IN  [raised |-> resp.kind = "exception", ret |-> ret, called |-> TRUE,
              prompt |-> full_prompt]

\* resp is what gemini_model.generate_content does when it is called
generate_podcast_script_gemini(gemini_model, items, topics, companies, resp) ==
    IF ~gemini_model
    THEN [raised |-> FALSE, ret |-> ErrModelNotAvailable, called |-> FALSE, prompt |-> <<>>]
    ELSE IF items = <<>>
    THEN [raised |-> FALSE, ret |-> NoNewsMessage, called |-> FALSE, prompt |-> <<>>]
    ELSE LET full_prompt == BuildPrompt(items, topics, companies)
             ret == CASE resp.kind = "text" -> CleanupScript(resp.text)
                      [] resp.kind \in {"no_candidates", "no_parts"} -> ErrNoValidScript
                      [] OTHER -> ErrException
         IN  [raised |-> FALSE, ret |-> ret, called |-> TRUE, prompt |-> full_prompt]

\* ------------------------------------------------------- speech synthesis
\* Python None as a returned path
NoPath == "None"

\* faulty variant: the except clause returns the path instead of None
text_to_speech_path_on_error(tts_client, text, output_filename, outcome) ==
    IF ~tts_client
    THEN [ret |-> NoPath, invoked |-> FALSE, wrote |-> FALSE]
    ELSE IF text = <<>> \/ Contains(text, ErrorMarker) \/ IsBlank(text)
    THEN [ret |-> NoPath, invoked |-> FALSE, wrote |-> FALSE]
    ELSE IF outcome = "ok"
    THEN [ret |-> output_filename, invoked |-> TRUE, wrote |-> TRUE]
    ELSE [ret |-> output_filename, invoked |-> TRUE, wrote |-> FALSE]

text_to_speech_gcp(tts_client, text, output_filename, outcome) ==
    IF ~tts_client
    THEN [ret |-> NoPath, invoked |-> FALSE, wrote |-> FALSE]
    ELSE IF text = <<>> \/ Contains(text, ErrorMarker) \/ IsBlank(text)
    THEN [ret |-> NoPath, invoked |-> FALSE, wrote |-> FALSE]
    ELSE IF outcome = "ok"
    THEN [ret |-> output_filename, invoked |-> TRUE, wrote |-> TRUE]
    ELSE [ret |-> NoPath, invoked |-> TRUE, wrote |-> FALSE]

\* ------------------------------------------------------------- bootstrap
\* The body of initialize_gcp_clients.  sdk says what the Google SDK does
\* when the clients are built; status is gcp_initialized_status as the
\* calling session holds it on entry.
initialize_gcp_clients(sec, sdk, status) ==
    LET none == [gemini |-> FALSE, tts |-> FALSE]
        half == [gemini |-> TRUE, tts |-> FALSE]
        both == [gemini |-> TRUE, tts |-> TRUE]
        \* clients as the try block leaves them when it raises
        partial == IF sdk.client_error = "before_tts" THEN half ELSE none
        \* lines 78-90, reached when neither branch returned
        final(clients) ==
            [clients |-> clients,
             status |-> IF ~status THEN FALSE ELSE status,
             method |-> "unchanged"]
    IN  IF sec.GCP_SERVICE_ACCOUNT_JSON_STR # "absent"
           /\ sec.GCP_PROJECT_ID /\ sec.GCP_LOCATION
        THEN IF sec.GCP_SERVICE_ACCOUNT_JSON_STR = "malformed"
             THEN [clients |-> none, status |-> FALSE, method |-> "unchanged"]
             ELSE IF sdk.client_error # "none"
             THEN [clients |-> partial, status |-> FALSE, method |-> "unchanged"]
             ELSE [clients |-> both, status |-> TRUE,
                   method |-> "Service Account JSON (from Secrets)"]
        ELSE IF sec.GCP_PROJECT_ID /\ sec.GCP_LOCATION
        THEN IF ~sdk.adc THEN final(none)
             ELSE IF sdk.client_error # "none" THEN final(partial)
             ELSE [clients |-> both, status |-> TRUE,
                   method |-> "Application Default Credentials (ADC)"]
        ELSE final(none)

\* ------------------------------------------------------------------ inputs
Sessions == 1..NumSessions

AudioFile == "generated_podcast_news.mp3"

SecretChoices ==
    [NEWS_API_KEY : BOOLEAN, GCP_PROJECT_ID : BOOLEAN, GCP_LOCATION : BOOLEAN,
     GCP_SERVICE_ACCOUNT_JSON_STR : {"absent", "malformed", "present"}]

SdkChoices == [adc : BOOLEAN, client_error : {"none", "before_gemini", "before_tts"}]

\* the text areas after split(','): one entry per comma-separated field
\* (each choice is <<raw_topics, raw_companies>>)
RawInputChoices ==
    { << << <<>> >>, << <<" ">> >> >>,
      << << <<" ","a","i">>, <<" ">> >>, << <<>> >> >> }

Article1 == [title |-> "T1", url |-> "u1", description |-> "d1", content |-> "c1", source |-> "S1"]
Article2 == [title |-> "T2", url |-> "", description |-> "d2", content |-> "", source |-> ""]
Untitled == [url |-> "u3"]

RECURSIVE SeqsUpTo(_, _)
SeqsUpTo(S, n) ==
    IF n = 0 THEN {<<>>}
    ELSE LET shorter == SeqsUpTo(S, n - 1)
         IN  shorter \cup {Append(q, x) : q \in shorter, x \in S}

ApiResponses ==
    {[kind |-> "error", articles |-> <<>>]}
    \cup {[kind |-> "ok", articles |-> a] :
              a \in SeqsUpTo({Article1, Article2, Untitled}, MaxFetched)}

FailPage == [kind |-> "fail", present |-> {}, paras |-> <<>>]

Para(len, words, inside) == [len |-> len, words |-> words, inside |-> inside]

\* the pages a run sees: a failed request, a page without paragraphs and an
\* article longer than both caps
RunPages ==
    {FailPage,
     [kind |-> "doc", present |-> {}, paras |-> <<>>],
     [kind |-> "doc", present |-> {"article"},
      paras |-> <<Para(5000, 800, {"article"})>>]}

ResponseTexts ==
    {<<>>, <<" ">>, <<"-"," ","H","i">>, <<"*"," ">>,
     ErrorMarker, <<"E","r","*"," ","r","o","r">>}

GeminiResponses ==
    {[kind |-> k, text |-> <<>>] : k \in {"exception", "no_candidates", "no_parts"}}
    \cup {[kind |-> "text", text |-> t] : t \in ResponseTexts}

TtsOutcomes == {"ok", "error"}

\* ------------------------------------------------------------------- state
\* A run record keeps, besides the locals of the script, what the run has
\* done so far: trail (the steps entered), calls and fetched (requests sent),
\* extraction (the kind of page each article request got) and response
\* (what the generation endpoint did).
VARIABLES
    secrets,    \* st.secrets: which keys are set (and whether the JSON parses)
    sdk,        \* what the Google SDK does when initialize_gcp_clients runs
    cache,      \* the st.cache_resource entry of initialize_gcp_clients
    ss,         \* st.session_state of every session
    ui,         \* what the last script run of every session rendered
    run,        \* the triggered run of every session
    files,      \* files present on the (ephemeral) disk
    call        \* the last direct call of a pipeline function

vars == <<secrets, sdk, cache, ss, ui, run, files, call>>

NoCall == [fn |-> "none"]

IdleRun ==
    [phase |-> "idle", trail |-> <<"idle">>,
     user_topics |-> <<>>, user_companies |-> <<>>, num_articles_for_script |-> 1,
     news_items |-> <<>>, selected |-> <<>>, processed |-> <<>>,
     extraction |-> <<>>, fetched |-> <<>>,
     script |-> <<>>, composed |-> FALSE, prompt |-> <<>>, response |-> "none",
     audio_path |-> NoPath,
     calls |-> [news |-> 0, gemini |-> 0, tts |-> 0]]

Running == {"fetching_news", "extracting_content", "composing_script", "synthesizing_audio"}

\* google.auth.default() is consulted only on the elif branch of line 58,
\* and the clients are built only once credentials are at hand: an SDK
\* outcome that is never consulted is not varied
SdkConsulted(sec, k) ==
    /\ k.adc => /\ sec.GCP_SERVICE_ACCOUNT_JSON_STR = "absent"
                /\ sec.GCP_PROJECT_ID /\ sec.GCP_LOCATION
    /\ k.client_error # "none"
       => /\ sec.GCP_PROJECT_ID /\ sec.GCP_LOCATION
          /\ sec.GCP_SERVICE_ACCOUNT_JSON_STR = "present" \/ k.adc

Init ==
    /\ secrets \in SecretChoices
    /\ sdk \in SdkChoices
    /\ SdkConsulted(secrets, sdk)
    /\ cache = [filled |-> FALSE, gemini |-> FALSE, tts |-> FALSE]
    /\ ss = [s \in Sessions |->
                [loaded |-> FALSE, gcp_initialized_status |-> FALSE,
                 gcp_initialized_method |-> "None",
                 podcast_script |-> <<>>, audio_file_path |-> ""]]
    /\ ui = [s \in Sessions |->
                [button_enabled |-> FALSE, script_shown |-> FALSE, player_shown |-> FALSE]]
    /\ run = [s \in Sessions |-> IdleRun]
    /\ files = {}
    /\ call = NoCall

\* ------------------------------------------------------------ script top
\* s.strip()
RECURSIVE LStrip(_)
LStrip(e) == IF e # <<>> /\ Head(e) \in Whitespace THEN LStrip(Tail(e)) ELSE e

RECURSIVE RStrip(_)
RStrip(e) ==
    IF e # <<>> /\ e[Len(e)] \in Whitespace THEN RStrip(SubSeq(e, 1, Len(e) - 1)) ELSE e

Strip(e) == RStrip(LStrip(e))

\* [t.strip() for t in raw.split(',') if t.strip()]
ParseList(raw) ==
    SelectSeq([i \in 1..Len(raw) |-> Strip(raw[i])], LAMBDA e : e # <<>>)

\* gcp_clients = initialize_gcp_clients() under st.cache_resource: the body
\* runs only while the cache holds no entry
CachedInit(s) ==
    IF cache.filled
    THEN [clients |-> [gemini |-> cache.gemini, tts |-> cache.tts],
          status |-> ss[s].gcp_initialized_status, method |-> "unchanged"]
    ELSE initialize_gcp_clients(secrets, sdk, ss[s].gcp_initialized_status)

\* st.session_state of s after lines 92-120
TopSession(s) ==
    LET r == CachedInit(s)
    IN  [ss[s] EXCEPT !.loaded = TRUE,
                      !.gcp_initialized_status = r.status,
                      !.gcp_initialized_method =
                          IF r.method = "unchanged" THEN @ ELSE r.method]

TopCache(s) ==
    LET r == CachedInit(s)
    IN  [filled |-> TRUE, gemini |-> r.clients.gemini, tts |-> r.clients.tts]

\* faulty variant: the button is never disabled
ButtonAlwaysEnabled(sess) == TRUE

\* st.button(..., disabled=not st.session_state.gcp_initialized_status)
ButtonEnabled(sess) == sess.gcp_initialized_status

\* the display block at the end of the script
DisplayAudio(path, disk) ==
    [path |-> IF path # "" /\ path \notin disk THEN "" ELSE path,
     player |-> path # "" /\ path \in disk]

\* session state and rendering once the script has run to its end
Finish(sess, disk) ==
    [sess EXCEPT !.audio_file_path = DisplayAudio(@, disk).path]

Rendered(sess, disk, script_shown) ==
    [button_enabled |-> ButtonEnabled(sess),
     script_shown |-> script_shown,
     player_shown |-> DisplayAudio(sess.audio_file_path, disk).player]

\* a rerun without the button: first load, or any other widget interaction
Rerun(s) ==
    /\ run[s].phase \notin Running
    /\ cache' = TopCache(s)
    /\ ss' = [ss EXCEPT ![s] = Finish(TopSession(s), files)]
    /\ ui' = [ui EXCEPT ![s] = Rendered(TopSession(s), files, FALSE)]
    /\ call' = NoCall
    /\ UNCHANGED <<secrets, sdk, run, files>>

\* ------------------------------------------------------- the triggered run
\* faulty variant: the audio path is not reset
ResetScriptOnly(sess) == [sess EXCEPT !.podcast_script = <<>>]

\* lines 321-322
ResetSession(sess) == [sess EXCEPT !.podcast_script = <<>>, !.audio_file_path = ""]

\* the input validations of lines 328-335
InputsAccepted(user_topics, user_companies, api_key, gemini_model, tts_client) ==
    /\ ~(user_topics = <<>> /\ user_companies = <<>>)
    /\ api_key
    /\ gemini_model /\ tts_client

\* the run moves on to phase (staying in a phase is not entering it)
Enter(r, phase) ==
    IF r.phase = phase THEN r
    ELSE [r EXCEPT !.phase = phase, !.trail = Append(@, phase)]

Trigger(s, raw_topics, raw_companies, n) ==
    /\ ss[s].loaded
    /\ ui[s].button_enabled
    /\ run[s].phase \notin Running
    /\ LET sess == ResetSession(TopSession(s))
           clients == CachedInit(s).clients
           user_topics == ParseList(raw_topics)
           user_companies == ParseList(raw_companies)
           started == [IdleRun EXCEPT !.user_topics = user_topics,
                                      !.user_companies = user_companies,
                                      !.num_articles_for_script = n]
       IN  IF InputsAccepted(user_topics, user_companies, secrets.NEWS_API_KEY,
                             clients.gemini, clients.tts)
           THEN /\ run' = [run EXCEPT ![s] = Enter(started, "fetching_news")]
                /\ ss' = [ss EXCEPT ![s] = sess]
                /\ ui' = [ui EXCEPT ![s] = [button_enabled |-> ButtonEnabled(sess),
                                            script_shown |-> FALSE,
                                            player_shown |-> FALSE]]
           ELSE /\ run' = [run EXCEPT ![s] = Enter(started, "rejected")]
                /\ ss' = [ss EXCEPT ![s] = Finish(sess, files)]
                /\ ui' = [ui EXCEPT ![s] = Rendered(sess, files, FALSE)]
    /\ cache' = TopCache(s)
    /\ call' = NoCall
    /\ UNCHANGED <<secrets, sdk, files>>

Min(a, b) == IF a <= b THEN a ELSE b

\* faulty variant: the slice is dropped
SelectAll(news_items, n) == news_items

\* news_items[:num_articles_for_script]
SelectForScript(news_items, n) == SubSeq(news_items, 1, Min(n, Len(news_items)))

\* faulty variant: an empty fetch result does not end the run
PhaseAfterFetchNoHalt(news_items, selected) ==
    IF selected = <<>> THEN "composing_script" ELSE "extracting_content"

\* line 341: what follows the news fetch
PhaseAfterFetch(news_items, selected) ==
    IF news_items = <<>> THEN "failed"
    ELSE IF selected = <<>> THEN "composing_script"
    ELSE "extracting_content"

\* Step 1: fetch_news_newsapi returns
FetchNews(s, resp) ==
    /\ run[s].phase = "fetching_news"
    /\ LET r == fetch_news_newsapi(secrets.NEWS_API_KEY, run[s].user_topics,
                                   run[s].user_companies, resp)
           selected == SelectForScript(r.results, run[s].num_articles_for_script)
           phase == PhaseAfterFetch(r.results, selected)
           next == [Enter(run[s], phase) EXCEPT
                       !.news_items = r.results,
                       !.selected = IF phase = "failed" THEN <<>> ELSE selected,
                       !.fetched = IF phase = "failed" THEN <<>>
                                   ELSE [i \in 1..Len(selected) |-> 0],
                       !.calls.news = @ + (IF r.called THEN 1 ELSE 0)]
       IN  /\ run' = [run EXCEPT ![s] = next]
           /\ IF phase = "failed"
              THEN /\ ss' = [ss EXCEPT ![s] = Finish(@, files)]
                   /\ ui' = [ui EXCEPT ![s] = Rendered(ss[s], files, FALSE)]
              ELSE UNCHANGED <<ss, ui>>
    /\ call' = NoCall
    /\ UNCHANGED <<secrets, sdk, cache, files>>

\* lines 356-358: the item as it is appended to processed_news_for_gemini
WithContent(item, full_text) ==
    IF full_text # <<>> THEN [full_text_content |-> full_text] @@ item ELSE item

\* the `for i, item in enumerate(...)` loop: what follows item i of n
PhaseAfterArticle(i, n) == IF i >= n THEN "composing_script" ELSE "extracting_content"

\* Step 2, one iteration: get_article_text(item['link']) returns
ExtractArticle(s, page) ==
    /\ run[s].phase = "extracting_content"
    /\ LET i == Len(run[s].processed) + 1
           item == run[s].selected[i]
           r == get_article_text(page)
           counted == [run[s] EXCEPT !.fetched[i] = @ + 1,
                                     !.extraction = Append(@, page.kind)]
       IN  /\ item.link = "" => page = FailPage
           /\ IF r.raised
              THEN run' = [run EXCEPT ![s] = Enter(counted, "crashed")]
              ELSE run' = [run EXCEPT ![s] =
                              [Enter(counted, PhaseAfterArticle(i, Len(run[s].selected)))
                                  EXCEPT !.processed = Append(@, WithContent(item, r.ret))]]
    /\ call' = NoCall
    /\ UNCHANGED <<secrets, sdk, cache, ss, ui, files>>

\* faulty variant: the pipeline guard without the sentinel test
ScriptValidBlankOnly(script) == ~IsBlank(script)

\* line 371 negated: the script goes on to speech synthesis
ScriptValid(script) == ~(Contains(script, ErrorMarker) \/ IsBlank(script))

PhaseAfterCompose(script) ==
    IF ScriptValid(script) THEN "synthesizing_audio" ELSE "failed"

\* Step 3: generate_podcast_script_gemini returns
ComposeScript(s, resp) ==
    /\ run[s].phase = "composing_script"
    /\ LET r == generate_podcast_script_gemini(cache.gemini, run[s].processed,
                    run[s].user_topics, run[s].user_companies, resp)
           counted == [run[s] EXCEPT !.calls.gemini = @ + (IF r.called THEN 1 ELSE 0),
                                     !.prompt = r.prompt,
                                     !.response = IF r.called THEN resp.kind ELSE "none"]
       IN  IF r.raised
           THEN /\ run' = [run EXCEPT ![s] = Enter(counted, "crashed")]
                /\ UNCHANGED <<ss, ui>>
           ELSE LET phase == PhaseAfterCompose(r.ret)
                    sess == [ss[s] EXCEPT !.podcast_script = r.ret]
                IN  /\ run' = [run EXCEPT ![s] =
                                  [Enter(counted, phase) EXCEPT !.script = r.ret,
                                                                !.composed = TRUE]]
                    /\ IF phase = "failed"
                       THEN /\ ss' = [ss EXCEPT ![s] = Finish(sess, files)]
                            /\ ui' = [ui EXCEPT ![s] = Rendered(sess, files, FALSE)]
                       ELSE /\ ss' = [ss EXCEPT ![s] = sess]
                            /\ ui' = [ui EXCEPT ![s].script_shown = TRUE]
    /\ call' = NoCall
    /\ UNCHANGED <<secrets, sdk, cache, files>>

\* faulty variant: a failed synthesis is tried again
PhaseAfterSynthesisRetry(audio_path) ==
    IF audio_path # NoPath THEN "done" ELSE "synthesizing_audio"

\* lines 381-385
PhaseAfterSynthesis(audio_path) == IF audio_path # NoPath THEN "done" ELSE "failed"

WriteFile(disk, name, wrote) == IF wrote THEN disk \cup {name} ELSE disk

\* Step 4: text_to_speech_gcp returns
SynthesizeAudio(s, outcome) ==
    /\ run[s].phase = "synthesizing_audio"
    /\ LET r == text_to_speech_gcp(cache.tts, ss[s].podcast_script, AudioFile, outcome)
           disk == WriteFile(files, AudioFile, r.wrote)
           sess == IF r.ret # NoPath THEN [ss[s] EXCEPT !.audio_file_path = r.ret]
                   ELSE ss[s]
       IN  /\ run' = [run EXCEPT ![s] =
                         [Enter(run[s], PhaseAfterSynthesis(r.ret)) EXCEPT
                             !.audio_path = r.ret,
                             !.calls.tts = @ + (IF r.invoked THEN 1 ELSE 0)]]
           /\ files' = disk
           /\ ss' = [ss EXCEPT ![s] = Finish(sess, disk)]
           /\ ui' = [ui EXCEPT ![s] = Rendered(sess, disk, TRUE)]
    /\ call' = NoCall
    /\ UNCHANGED <<secrets, sdk, cache>>

\* the ephemeral filesystem drops a file
RemoveFile(f) ==
    /\ f \in files
    /\ files' = files \ {f}
    /\ UNCHANGED <<secrets, sdk, cache, ss, ui, run, call>>

\* ------------------------------------------------------------ direct calls
\* The pipeline functions called on their own, with the module globals
\* gemini_model and tts_client as the script run left them.
ModuleLoaded == cache.filled /\ \A s \in Sessions : run[s].phase = "idle"

Item1 == ToNewsItem(Article1)
Item2 == ToNewsItem(Article2)

DirectItemLists == {<<>>, <<Item1>>, <<Item2, Item1>>}

DirectTexts ==
    {CleanupScript(t) : t \in ResponseTexts} \cup {NoNewsMessage, ErrException}

CallCompose(items, resp) ==
    /\ ModuleLoaded
    /\ call' = [fn |-> "generate_podcast_script_gemini", items |-> items, resp |-> resp,
                result |-> generate_podcast_script_gemini(cache.gemini, items,
                               <<>>, <<>>, resp)]
    /\ UNCHANGED <<secrets, sdk, cache, ss, ui, run, files>>

CallSynthesize(text, outcome) ==
    /\ ModuleLoaded
    /\ LET r == text_to_speech_gcp(cache.tts, text, AudioFile, outcome)
       IN  /\ call' = [fn |-> "text_to_speech_gcp", text |-> text, result |-> r,
                       existed |-> AudioFile \in files]
           /\ files' = WriteFile(files, AudioFile, r.wrote)
    /\ UNCHANGED <<secrets, sdk, cache, ss, ui, run>>

\* ------------------------------------------------------------ specification
Next ==
    \/ \E s \in Sessions : Rerun(s)
    \/ \E s \in Sessions, raw \in RawInputChoices, n \in 1..MaxForScript :
          Trigger(s, raw[1], raw[2], n)
    \/ \E s \in Sessions, resp \in ApiResponses : FetchNews(s, resp)
    \/ \E s \in Sessions, page \in RunPages : ExtractArticle(s, page)
    \/ \E s \in Sessions, resp \in GeminiResponses : ComposeScript(s, resp)
    \/ \E s \in Sessions, outcome \in TtsOutcomes : SynthesizeAudio(s, outcome)
    \/ RemoveFile(AudioFile)
    \/ \E items \in DirectItemLists, resp \in GeminiResponses : CallCompose(items, resp)
    \/ \E text \in DirectTexts, outcome \in TtsOutcomes : CallSynthesize(text, outcome)

Spec == Init /\ [][Next]_vars

\* ------------------------------------------- get_article_text on its own
\* Parsed documents: up to two matching containers, up to MaxParas <p>
\* elements, each empty, short (2 words) or long (500 words), inside any of
\* the matching containers or none.
ParaTexts == {<<0, 0>>, <<12, 2>>, <<3000, 500>>}

Presents == {P \in SUBSET {main_content_selectors[k] : k \in 1..Len(main_content_selectors)} :
                Cardinality(P) <= 2}

DocumentsUpTo(n) ==
    UNION {{[kind |-> "doc", present |-> P, paras |-> ps] :
               ps \in SeqsUpTo({Para(t[1], t[2], inside) :
                                   t \in ParaTexts, inside \in SUBSET P}, n)} :
           P \in Presents}

PagesUpTo(n) == {FailPage} \cup DocumentsUpTo(n)

InitExtract ==
    /\ secrets = [NEWS_API_KEY |-> TRUE, GCP_PROJECT_ID |-> TRUE, GCP_LOCATION |-> TRUE,
                  GCP_SERVICE_ACCOUNT_JSON_STR |-> "present"]
    /\ sdk = [adc |-> FALSE, client_error |-> "none"]
    /\ cache = [filled |-> FALSE, gemini |-> FALSE, tts |-> FALSE]
    /\ ss = [s \in Sessions |->
                [loaded |-> FALSE, gcp_initialized_status |-> FALSE,
                 gcp_initialized_method |-> "None",
                 podcast_script |-> <<>>, audio_file_path |-> ""]]
    /\ ui = [s \in Sessions |->
                [button_enabled |-> FALSE, script_shown |-> FALSE, player_shown |-> FALSE]]
    /\ run = [s \in Sessions |-> IdleRun]
    /\ files = {}
    /\ call \in {[fn |-> "pending", page |-> page] : page \in PagesUpTo(MaxParas)}

CallExtract ==
    /\ call.fn = "pending"
    /\ call' = [fn |-> "get_article_text", page |-> call.page,
                result |-> get_article_text(call.page)]
    /\ UNCHANGED <<secrets, sdk, cache, ss, ui, run, files>>

NextExtract == CallExtract

SpecExtract == InitExtract /\ [][NextExtract]_vars

\* ================================================================= claims
InvalidScript(t) == t = <<>> \/ Contains(t, ErrorMarker) \/ IsBlank(t)

InTrail(r, phase) == \E i \in 1..Len(r.trail) : r.trail[i] = phase

\* C1: a run whose composed script contains "Error", is empty or is blank
\* never reaches the synthesis step and never calls the TTS endpoint; and
\* text_to_speech_gcp called directly on such a text does not invoke the
\* endpoint, returns None and writes no file.
NoSynthesisOfInvalidScript ==
    /\ \A s \in Sessions :
          run[s].composed /\ InvalidScript(run[s].script)
          => /\ run[s].calls.tts = 0
             /\ ~InTrail(run[s], "synthesizing_audio")
             /\ run[s].audio_path = NoPath
    /\ \A s \in Sessions : run[s].calls.tts > 0 => ~InvalidScript(run[s].script)
    /\ call.fn = "text_to_speech_gcp" /\ InvalidScript(call.text)
       => /\ ~call.result.invoked
          /\ call.result.ret = NoPath
          /\ ~call.result.wrote
          /\ (AudioFile \in files => call.existed)

\* a run ended on a script that only the cleanup turned into "Error"
WitnessC1 ==
    \E s \in Sessions :
        /\ run[s].composed /\ run[s].response = "text"
        /\ Contains(run[s].script, ErrorMarker)
        /\ run[s].phase = "failed"

LinearOrder ==
    <<"idle", "fetching_news", "extracting_content", "composing_script",
      "synthesizing_audio", "done">>

\* the steps of r form the linear order cut short, by a failure at most
LinearTrail(r) ==
    \/ \E k \in 1..Len(LinearOrder) : r.trail = SubSeq(LinearOrder, 1, k)
    \/ \E k \in {2, 4, 5} : r.trail = Append(SubSeq(LinearOrder, 1, k), "failed")
    \/ r.trail = <<"idle", "rejected">>

\* C2: the steps a run has entered are a prefix of idle, fetching_news,
\* extracting_content, composing_script, synthesizing_audio, done, ended by
\* a failure of the fetch, the composition or the synthesis at most, with no
\* step twice; extraction is entered only with a non-empty fetch result,
\* composition only once every selected item is processed, synthesis only
\* with a valid composed script; a failed run has done nothing of any
\* later step.
LinearRun ==
    \A s \in Sessions :
        LET r == run[s]
        IN  /\ LinearTrail(r)
            /\ r.phase = r.trail[Len(r.trail)]
            /\ InTrail(r, "extracting_content")
               => r.calls.news = 1 /\ r.news_items # <<>> /\ r.selected # <<>>
            /\ InTrail(r, "composing_script")
               => Len(r.processed) = Len(r.selected) /\ r.fetched = [i \in 1..Len(r.selected) |-> 1]
            /\ ~InTrail(r, "composing_script") => ~r.composed /\ r.calls.gemini = 0
            /\ InTrail(r, "synthesizing_audio") => r.composed /\ ~InvalidScript(r.script)
            /\ ~InTrail(r, "synthesizing_audio") => r.calls.tts = 0 /\ r.audio_path = NoPath
            /\ r.trail = <<"idle", "fetching_news", "failed">>
               => r.processed = <<>> /\ r.fetched = <<>> /\ r.calls.gemini = 0
            /\ r.phase = "failed" /\ InTrail(r, "synthesizing_audio")
               => r.audio_path = NoPath /\ ss[s].audio_file_path = ""
            /\ r.phase = "done" => r.audio_path = AudioFile /\ r.calls.tts = 1

\* a run went through every step
WitnessC2 == \E s \in Sessions : run[s].trail = LinearOrder /\ Len(run[s].processed) = 2

\* C3: generate_podcast_script_gemini does not raise, and returns a string
\* containing "Error" whenever the generation call raised or returned no
\* candidates or no parts, or the model handle is absent.
CompositionFailureIsSentinel ==
    /\ \A s \in Sessions :
          /\ run[s].phase # "crashed"
          /\ run[s].response \in {"exception", "no_candidates", "no_parts"}
             => run[s].composed /\ Contains(run[s].script, ErrorMarker)
    /\ call.fn = "generate_podcast_script_gemini"
       => /\ ~call.result.raised
          /\ ~cache.gemini => Contains(call.result.ret, ErrorMarker)
          /\ call.result.called
             /\ call.resp.kind \in {"exception", "no_candidates", "no_parts"}
             => Contains(call.result.ret, ErrorMarker)

\* a run whose generation call raised
WitnessC3 ==
    \E s \in Sessions :
        /\ run[s].response = "exception"
        /\ run[s].script = ErrException
        /\ ss[s].podcast_script = ErrException

\* positions of the "--- News Item i ---" lines of a prompt
HeaderPositions(prompt) ==
    SelectSeq([i \in 1..Len(prompt) |-> i], LAMBDA i : prompt[i].kind = "header")

\* C4: composing a script from an empty item list sends the generation
\* endpoint a prompt whose news section is the "no specific news"
\* substitution, and does not fail.
EmptyListPromptHasSubstitution ==
    call.fn = "generate_podcast_script_gemini" /\ call.items = <<>> /\ cache.gemini
    => /\ ~call.result.raised
       /\ call.result.called
       /\ \E i \in 1..Len(call.result.prompt) :
             call.result.prompt[i].kind = "no_specific_news"
       /\ HeaderPositions(call.result.prompt) = <<>>

\* the prompt has one header per item, numbered from 1 in list order, each
\* followed by the title of its item
ListsItems(prompt, items) ==
    LET hp == HeaderPositions(prompt)
    IN  /\ Len(hp) = Len(items)
        /\ \A k \in 1..Len(hp) :
              /\ prompt[hp[k]].n = k
              /\ hp[k] < Len(prompt)
              /\ prompt[hp[k] + 1].kind = "title"
              /\ prompt[hp[k] + 1].v = items[k].title

\* C5: the prompt sent for N >= 1 items has exactly N headers numbered 1..N,
\* each followed by its item's title, in list order; in a run the items are
\* the first min(fetched, 'articles to include in script') fetched items,
\* whatever their extraction gave.
PromptHasOneHeaderPerItem ==
    /\ \A s \in Sessions :
          LET r == run[s]
          IN  r.calls.gemini > 0
              => /\ ListsItems(r.prompt, r.processed)
                 /\ Len(r.processed) = Min(Len(r.news_items), r.num_articles_for_script)
                 /\ \A i \in 1..Len(r.processed) :
                       /\ r.processed[i].title = r.news_items[i].title
                       /\ r.processed[i].link = r.news_items[i].link
    /\ call.fn = "generate_podcast_script_gemini" /\ call.result.called
       => Len(call.items) >= 1 /\ ListsItems(call.result.prompt, call.items)

\* a run fetched more items than the setting admits and composed from the
\* first of them, whose extraction had failed
WitnessC5 ==
    \E s \in Sessions :
        /\ run[s].calls.gemini = 1
        /\ Len(run[s].news_items) > run[s].num_articles_for_script
        /\ run[s].extraction[1] = "fail"
        /\ Len(HeaderPositions(run[s].prompt)) = run[s].num_articles_for_script

RECURSIVE WordsOf(_, _)
WordsOf(doc, idx) ==
    IF idx = <<>> THEN 0 ELSE doc.paras[Head(idx)].words + WordsOf(doc, Tail(idx))

\* the first selector, in priority order, whose container holds at least
\* the minimum of 50 words of paragraph text; 0 when there is none
RECURSIVE FirstSufficient(_, _)
FirstSufficient(doc, k) ==
    IF k > Len(main_content_selectors) THEN 0
    ELSE IF /\ main_content_selectors[k] \in doc.present
            /\ WordsOf(doc, ParasIn(doc, main_content_selectors[k])) >= 50
         THEN k
         ELSE FirstSufficient(doc, k + 1)

\* C6: get_article_text returns, cut to 4000 characters, the joined
\* paragraph text of the first container in selector order that has at
\* least the minimum number of words, skipping matching containers below
\* it, and the joined text of every paragraph when no container has.
ExtractionSkipsThinContainers ==
    call.fn = "get_article_text" /\ call.page.kind = "doc"
    => LET k == FirstSufficient(call.page, 1)
           expected ==
               IF k = 0 THEN JoinParas(call.page, AllParas(call.page))
               ELSE JoinParas(call.page, ParasIn(call.page, main_content_selectors[k]))
       IN  /\ ~call.result.raised
           /\ call.result.ret = Slice(expected, ArticleLengthCap)

\* C7: a failed article request makes get_article_text return "" without
\* raising; the item is appended without full_text_content, the loop goes
\* on to the remaining items, and composition gets every selected item.
ExtractionFailureIsNotFatal ==
    \A s \in Sessions :
        LET r == run[s]
        IN  /\ r.phase # "crashed"
            /\ Len(r.extraction) = Len(r.processed)
            /\ \A i \in 1..Len(r.extraction) :
                  r.extraction[i] = "fail"
                  => /\ "full_text_content" \notin DOMAIN r.processed[i]
                     /\ r.processed[i] = r.selected[i]
            /\ r.phase = "failed" => r.news_items = <<>> \/ r.composed
            /\ r.composed \/ r.phase = "composing_script"
               => Len(r.processed) = Len(r.selected)
            /\ r.calls.gemini > 0 => ListsItems(r.prompt, r.selected)

\* a run finished after the request for its first article failed and the
\* one for its second succeeded
WitnessC7 ==
    \E s \in Sessions :
        /\ run[s].phase = "done"
        /\ run[s].extraction = <<"fail", "doc">>
        /\ "full_text_content" \in DOMAIN run[s].processed[2]
        /\ \E i \in 1..Len(run[s].prompt) : run[s].prompt[i].kind = "url"

\* C8: run[s] being the most recent triggered run of session s, the
\* session's audio_file_path is non-empty only if that run's synthesis
\* succeeded, and its podcast_script is empty or the string that run's
\* composition returned; a run that failed or was rejected leaves no audio
\* path behind.
SessionHoldsOnlyLatestRun ==
    \A s \in Sessions :
        LET r == run[s]
        IN  /\ ss[s].audio_file_path # ""
               => /\ r.phase = "done"
                  /\ r.calls.tts = 1
                  /\ r.audio_path = ss[s].audio_file_path
            /\ \/ ss[s].podcast_script = <<>>
               \/ r.composed /\ ss[s].podcast_script = r.script
            /\ r.phase \in {"failed", "rejected"} \cup Running
               => ss[s].audio_file_path = ""
            /\ r.phase \in Running \/ r.phase \in {"failed", "rejected"}
               => ~ui[s].player_shown

\* a run failed before composing while the audio file of an earlier
\* synthesis is still on disk: the session shows neither script nor player
WitnessC8 ==
    \E s \in Sessions :
        /\ run[s].phase = "failed"
        /\ ~run[s].composed
        /\ AudioFile \in files
        /\ ss[s].audio_file_path = "" /\ ss[s].podcast_script = <<>>
        /\ ~ui[s].player_shown

\* the credentials initialize_gcp_clients can build clients from
UsableCredentials ==
    \/ secrets.GCP_SERVICE_ACCOUNT_JSON_STR = "present"
    \/ secrets.GCP_SERVICE_ACCOUNT_JSON_STR = "absent" /\ sdk.adc

GcpConfigMissing ==
    ~secrets.GCP_PROJECT_ID \/ ~secrets.GCP_LOCATION \/ ~UsableCredentials

NoRunStarted(r) == r.phase = "idle" /\ r.trail = <<"idle">>

\* C9 as stated: with any required secret absent (news API key, GCP project
\* id, GCP location, usable credentials) the Generate button is disabled
\* and no run starts.
MissingSecretDisablesButton ==
    ~secrets.NEWS_API_KEY \/ GcpConfigMissing
    => \A s \in Sessions : ~ui[s].button_enabled /\ NoRunStarted(run[s])

\* C9 amended: with a GCP secret absent (project id, location, usable
\* credentials) the Generate button is disabled and no run starts; with
\* only the news API key absent the button stays enabled, and a triggered
\* run is rejected by the input validation before any request is sent.
MissingGcpSecretDisablesButton ==
    /\ GcpConfigMissing
       => \A s \in Sessions : ~ui[s].button_enabled /\ NoRunStarted(run[s])
    /\ ~secrets.NEWS_API_KEY
       => \A s \in Sessions :
             /\ run[s].phase \in {"idle", "rejected"}
             /\ run[s].calls = [news |-> 0, gemini |-> 0, tts |-> 0]
             /\ run[s].fetched = <<>>

\* the button was pressed without a news API key and the run was rejected
WitnessC9 ==
    \E s \in Sessions :
        /\ ~secrets.NEWS_API_KEY
        /\ ui[s].button_enabled
        /\ run[s].phase = "rejected"
        /\ run[s].user_topics # <<>>

\* C10: within one run the news API, the generation endpoint and the TTS
\* endpoint are each called at most once, and the page of each selected
\* item is requested at most once, whichever of the calls fail.
NothingRetried ==
    \A s \in Sessions :
        /\ run[s].calls.news <= 1
        /\ run[s].calls.gemini <= 1
        /\ run[s].calls.tts <= 1
        /\ \A i \in 1..Len(run[s].fetched) : run[s].fetched[i] <= 1
        /\ run[s].phase = "failed" /\ run[s].news_items = <<>> => run[s].calls.news = 1
        /\ run[s].phase = "failed" /\ run[s].composed
              /\ ~InTrail(run[s], "synthesizing_audio")
           => run[s].calls.gemini = 1
        /\ run[s].phase = "failed" /\ InTrail(run[s], "synthesizing_audio")
           => run[s].calls.tts = 1

\* a run whose article request and TTS call both failed
WitnessC10 ==
    \E s \in Sessions :
        /\ run[s].phase = "failed"
        /\ run[s].calls = [news |-> 1, gemini |-> 1, tts |-> 1]
        /\ run[s].extraction = <<"fail", "fail">>
        /\ run[s].fetched = <<1, 1>>

\* the run of session s failed in the synthesis step
SynthesisFailed(s) ==
    run[s].phase = "failed" /\ InTrail(run[s], "synthesizing_audio")

\* what a failed synthesis leaves in the session
ScriptKeptWithoutAudio(s) ==
    /\ run[s].composed /\ ~InvalidScript(run[s].script)
    /\ ss[s].podcast_script = run[s].script
    /\ ss[s].audio_file_path = ""
    /\ run[s].audio_path = NoPath
    /\ ~ui[s].player_shown

\* C11: when composition gave a valid script and the TTS call then fails,
\* the script run that ends there has shown the script preview, and from
\* then on (until the next triggered run) the session's podcast_script is
\* the composed script, audio_file_path is empty and no audio player is
\* rendered, also when the audio file of an earlier run is still on disk.
\* A TTS call that was made and wrote no file returns no path, and a run
\* whose TTS call left no file on disk ends as failed.
SynthesisFailureKeepsScript ==
    /\ [](call.fn = "text_to_speech_gcp" /\ call.result.invoked /\ ~call.result.wrote
            => call.result.ret = NoPath)
    /\ [][\A s \in Sessions :
             /\ run[s].phase = "synthesizing_audio"
             /\ run'[s].calls.tts = run[s].calls.tts + 1
             /\ AudioFile \notin files'
             => run'[s].phase = "failed"]_vars
    /\ [](\A s \in Sessions :
             /\ SynthesisFailed(s) => ScriptKeptWithoutAudio(s)
             /\ run[s].phase = "synthesizing_audio"
                => ui[s].script_shown /\ ss[s].podcast_script = run[s].script)
    /\ [][\A s \in Sessions :
             run[s].phase = "synthesizing_audio" /\ run'[s].phase = "failed"
             => /\ ui'[s].script_shown
                /\ ~ui'[s].player_shown
                /\ ss'[s].podcast_script = ss[s].podcast_script
                /\ ss'[s].audio_file_path = ""
                /\ files' = files]_vars

\* the TTS call failed while the audio file of an earlier synthesis is on
\* disk: the script preview is shown, the player is not
WitnessC11 ==
    \E s \in Sessions :
        /\ SynthesisFailed(s)
        /\ run[s].calls.tts = 1
        /\ ui[s].script_shown
        /\ ss[s].podcast_script = run[s].script
        /\ AudioFile \in files
        /\ ~ui[s].player_shown

\* C12: in every session whose script has run, gcp_initialized_status is
\* true exactly when both the Gemini and the TTS client handles are non-null,
\* and the Generate button is enabled exactly then; this includes a session
\* that reuses the cached result of initialize_gcp_clients.
StatusMatchesClientsInEverySession ==
    \A s \in Sessions :
        ss[s].loaded
        => /\ ss[s].gcp_initialized_status = (cache.gemini /\ cache.tts)
           /\ ui[s].button_enabled = (cache.gemini /\ cache.tts)

====
